---- MODULE Spec2Model ----
(***************************************************************************)
(* A model of the AI-Tutor backend (backend/app.py, backend/models.py,     *)
(* backend/alembic/versions/add_google_auth.py): the users table, signup,  *)
(* password login, bearer-token validation, Google login, the slowapi      *)
(* rate limiter and the TTL cache in front of the generative model.        *)
(*                                                                         *)
(* Strings the code slices or concatenates (usernames, emails, topics,     *)
(* cache keys) are sequences of one-character strings.  Opaque strings     *)
(* (password hashes, Google ids, pictures) are TLA+ strings, and None is   *)
(* the string "None" there.  Time is counted in ticks, TicksPerSecond to   *)
(* the second.                                                             *)
(***************************************************************************)
EXTENDS Integers, Sequences, FiniteSets, TLC

VARIABLES
    users,      \* rows of the users table, in id order (id = index)
    mapped,     \* attribute names the ORM class models.User defines
    sess,       \* per threadpool worker: where its POST /signup stands
    resp,       \* the response most recently sent by any handler
    now,        \* the wall clock, in ticks
    issued,     \* tokens handed out so far, with their time of issue
    storage,    \* limiter storage: key -> [count, expires]
    accepted,   \* the times at which the limiter let a request through, per key
    cache,      \* TTLCache entries [key, value, expires], least recently used first
    stored      \* per cache key: when its entry was last written, with what, and
                \* whether it has since been evicted for capacity

vars == <<users, mapped, sess, resp, now, issued, storage, accepted, cache, stored>>

None == "None"

(***************************************************************************)
(* Bounds of the model.                                                    *)
(***************************************************************************)
TicksPerSecond == 2
MaxUsers == 2
MaxSuffixDraws == 2
MaxOffset == 3
MaxTokens == 1
MaxLimiterOffset == 1
MaxOver == 1
MaxTutorOffset == 2

(***************************************************************************)
(* Strings.                                                                *)
(***************************************************************************)
Digit(d) == CASE d = 0 -> "0" [] d = 1 -> "1" [] d = 2 -> "2" [] d = 3 -> "3"
              [] d = 4 -> "4" [] d = 5 -> "5" [] d = 6 -> "6" [] d = 7 -> "7"
              [] d = 8 -> "8" [] d = 9 -> "9"

RECURSIVE str(_)
\* Python's str(int) for n >= 0: the decimal digits, no padding.
str(n) == IF n < 10 THEN <<Digit(n)>> ELSE str(n \div 10) \o <<Digit(n % 10)>>

\* s.split(sep)[0]: the part of s before the first sep, all of s if there is none.
SplitFirst(s, sep) ==
    IF \E i \in 1..Len(s) : s[i] = sep
    THEN SubSeq(s, 1, (CHOOSE i \in 1..Len(s) :
                          s[i] = sep /\ \A j \in 1..(i - 1) : s[j] # sep) - 1)
    ELSE s

IsDigits(s) == \A i \in 1..Len(s) : s[i] \in {Digit(d) : d \in 0..9}

\* random.randint(a, b): any integer of a..b.
randint(a, b) == a..b

(***************************************************************************)
(* The users table (models.User) and its constraints.                      *)
(***************************************************************************)
UserColumns == {"id", "username", "email", "full_name", "hashed_password",
                "disabled", "created_at", "updated_at"}

MigrationColumns == {"google_id", "picture"}

Rows == {users[i] : i \in 1..Len(users)}

\* db.query(User).filter(User.<col> == v).first(): the index of the row, 0 for None.
first_by(col, v) ==
    IF \E i \in 1..Len(users) : users[i][col] = v
    THEN CHOOSE i \in 1..Len(users) :
            users[i][col] = v /\ \A j \in 1..(i - 1) : users[j][col] # v
    ELSE 0

get_user(username) == first_by("username", username)

\* The unique indexes: username, email (models.py), google_id (the migration;
\* NULLs never collide).
violates_unique(row, self) ==
    \E i \in 1..Len(users) :
        /\ i # self
        /\ \/ users[i].username = row.username
           \/ users[i].email = row.email
           \/ row.google_id # None /\ users[i].google_id = row.google_id

\* pwd_context.hash: a non-null string (the salt is left out).
get_password_hash(password) == "bcrypt$" \o password

\* pwd_context.verify: False for a missing hash.
verify_password(plain, hashed) == hashed # None /\ hashed = get_password_hash(plain)

(***************************************************************************)
(* Request inputs.                                                         *)
(***************************************************************************)
Workers == {1, 2}

Usernames == {<<"a">>, <<"a", "1", "0", "0", "0">>}
Emails == {<<"a", "@", "x">>, <<"a", "@", "y">>, <<"b", "@", "x">>}
Passwords == {"pw"}
GoogleIds == {"g1", "g2"}

\* The emails signups come with; the provider's replies range over all of Emails.
SignupEmails == {<<"a", "@", "x">>, <<"b", "@", "x">>}

SignupRequests == [username : Usernames, email : SignupEmails, password : Passwords]

Idle == [pc |-> "idle"]

(***************************************************************************)
(* POST /signup, run in the threadpool: two queries and a commit, each a   *)
(* separate statement against the database.                                *)
(***************************************************************************)
\* The response, with whether a committed row held the username or the email
\* when it was sent (before this request's own insert).
SignupResp(status, detail, req) ==
    [op |-> "signup", status |-> status, detail |-> detail,
     held |-> \E r \in Rows : r.username = req.username \/ r.email = req.email]

\* app.py 171-176: the username query.
SignupCheckUsername(w, req) ==
    /\ sess[w].pc = "idle"
    /\ IF get_user(req.username) # 0
       THEN /\ resp' = SignupResp(400, "Username already registered", req)
            /\ sess' = sess
       ELSE /\ sess' = [sess EXCEPT ![w] = [pc |-> "username_free", req |-> req]]
            /\ resp' = resp
    /\ UNCHANGED <<users, mapped, now, issued, storage, accepted, cache, stored>>

\* app.py 179-184: the email query.
SignupCheckEmail(w) ==
    /\ sess[w].pc = "username_free"
    /\ IF first_by("email", sess[w].req.email) # 0
       THEN /\ resp' = SignupResp(400, "Email already registered", sess[w].req)
            /\ sess' = [sess EXCEPT ![w] = Idle]
       ELSE /\ sess' = [sess EXCEPT ![w].pc = "email_free"]
            /\ resp' = resp
    /\ UNCHANGED <<users, mapped, now, issued, storage, accepted, cache, stored>>

NewPasswordUser(req) ==
    [username |-> req.username, email |-> req.email,
     hashed_password |-> get_password_hash(req.password),
     google_id |-> None, picture |-> None, disabled |-> FALSE]

\* app.py 187-204: insert and commit; an IntegrityError is an SQLAlchemyError.
SignupCommit(w) ==
    /\ sess[w].pc = "email_free"
    /\ LET req == sess[w].req
           row == NewPasswordUser(req)
       IN  IF violates_unique(row, 0)
           THEN /\ users' = users
                /\ resp' = SignupResp(503,
                              "Unable to create user account. Please try again later.", req)
           ELSE /\ Len(users) < MaxUsers
                /\ users' = Append(users, row)
                /\ resp' = SignupResp(200, "created", req)
    /\ sess' = [sess EXCEPT ![w] = Idle]
    /\ UNCHANGED <<mapped, now, issued, storage, accepted, cache, stored>>

(***************************************************************************)
(* The token service (python-jose).  jwt.encode writes a datetime "exp" as *)
(* a NumericDate, whole seconds since the epoch; jwt.decode compares it    *)
(* with the current time in whole seconds.                                 *)
(***************************************************************************)
SECRET_KEY == "your-secret-key-here"
ACCESS_TOKEN_EXPIRE_MINUTES == 60 * 24

\* timedelta(minutes=m), in ticks.
minutes(m) == m * 60 * TicksPerSecond

\* timegm(dt.utctimetuple()): the whole seconds of an instant given in ticks.
NumericDate(t) == t \div TicksPerSecond

jwt_encode(claims, key) == [payload |-> claims, key |-> key]

\* app.py 130-138; expires_delta is None (or falsy) when the caller gives none.
create_access_token(sub, expires_delta, t) ==
    LET expire == IF expires_delta # 0 THEN t + expires_delta ELSE t + minutes(15)
    IN  jwt_encode([sub |-> sub, exp |-> NumericDate(expire)], SECRET_KEY)

\* jwt.decode as it would be if a token were refused from the second of its
\* "exp" on: the variant C3 has to tell from jwt_decode.
jwt_decode_refusing_at_exp(token, t) ==
    IF token.key # SECRET_KEY THEN "JWTError"
    ELSE IF "exp" \in DOMAIN token.payload /\ token.payload.exp <= NumericDate(t)
         THEN "ExpiredSignatureError"
         ELSE "ok"

\* jwt.decode at instant t: the signature first, then "exp" against the clock.
jwt_decode(token, t) ==
    IF token.key # SECRET_KEY THEN "JWTError"
    ELSE IF "exp" \in DOMAIN token.payload /\ token.payload.exp < NumericDate(t)
         THEN "ExpiredSignatureError"
         ELSE "ok"

\* app.py 140-160: the index of the user's row, or 0 for credentials_exception.
get_current_user(token, t) ==
    IF jwt_decode(token, t) # "ok" THEN 0
    ELSE IF "sub" \notin DOMAIN token.payload THEN 0
         ELSE get_user(token.payload.sub)

(***************************************************************************)
(* POST /auth/google.  After the awaited provider call the handler runs    *)
(* without yielding, so it is one step.  Every exception raised inside the *)
(* try block, the HTTPException of line 344 included, reaches the handler  *)
(* of line 404.                                                            *)
(***************************************************************************)
\* What the provider may answer: a rejection, a profile without "sub", a profile.
ProviderReplies ==
    {[status_code |-> 401], [status_code |-> 200, email |-> <<"a", "@", "x">>]}
    \cup [status_code : {200}, sub : GoogleIds, email : Emails, picture : {"pic"}]

WellFormed(reply) == reply.status_code = 200 /\ "sub" \in DOMAIN reply

\* What the table held when the handler looked: the row with the provider's id,
\* the row with its email (and that row as it was), whether the derived name was
\* taken, and the number of rows.
Found(reply) ==
    IF WellFormed(reply)
    THEN [by_google_id |-> first_by("google_id", reply.sub),
          by_email |-> first_by("email", reply.email),
          before |-> IF first_by("email", reply.email) # 0
                     THEN <<users[first_by("email", reply.email)]>> ELSE <<>>,
          derived_taken |-> get_user(SplitFirst(reply.email, "@")) # 0,
          sub |-> reply.sub, picture |-> reply.picture, rows |-> Len(users)]
    ELSE [by_google_id |-> 0, by_email |-> 0, before |-> <<>>,
          derived_taken |-> FALSE, sub |-> None, picture |-> None, rows |-> Len(users)]

\* The response, with what the handler saw and did: the branch it took, the
\* number of suffixes it drew and the index of the row it answers for.
GoogleResp(status, branch, reply, draws, token, i) ==
    [op |-> "google", status |-> status, branch |-> branch,
     provider_status |-> reply.status_code, draws |-> draws,
     access_token |-> token, user |-> i, found |-> Found(reply)]

\* app.py 404-409: any exception becomes 500 "Authentication failed".
GoogleFailed(branch, reply, draws) ==
    /\ resp' = GoogleResp(500, branch, reply, draws, <<>>, 0)
    /\ users' = users

\* app.py 388-402: the token for the row's username, 24 hours.
GoogleSucceeded(branch, reply, draws, table, i) ==
    /\ users' = table
    /\ resp' = GoogleResp(200, branch, reply, draws,
                          <<create_access_token(table[i].username,
                                                minutes(ACCESS_TOKEN_EXPIRE_MINUTES), now)>>,
                          i)

\* The new row as it would be if the constructor were not given the Google id:
\* the variant C11 has to tell from NewGoogleUser.
NewGoogleUser_without_id(username, reply) ==
    [username |-> username, email |-> reply.email, hashed_password |-> None,
     google_id |-> None, picture |-> reply.picture, disabled |-> FALSE]

NewGoogleUser(username, reply) ==
    [username |-> username, email |-> reply.email, hashed_password |-> None,
     google_id |-> reply.sub, picture |-> reply.picture, disabled |-> FALSE]

\* app.py 369-386: one draw of the suffix, then the insert.
google_create(reply, n) ==
    LET prefix == SplitFirst(reply.email, "@")
        existing == get_user(prefix) # 0
        username == IF existing THEN prefix \o str(n) ELSE prefix
        draws == IF existing THEN 1 ELSE 0
        row == NewGoogleUser(username, reply)
    IN  IF violates_unique(row, 0)
        THEN GoogleFailed("integrity_error", reply, draws)
        ELSE /\ Len(users) < MaxUsers
             /\ GoogleSucceeded("created", reply, draws, Append(users, row), Len(users) + 1)

\* app.py 362-366: the row found by email takes the Google id and the picture.
google_link(reply, i) ==
    LET row == [users[i] EXCEPT !.google_id = reply.sub, !.picture = reply.picture]
    IN  IF violates_unique(row, i)
        THEN GoogleFailed("integrity_error", reply, 0)
        ELSE GoogleSucceeded("linked", reply, 0, [users EXCEPT ![i] = row], i)

google_auth(reply, n) ==
    IF reply.status_code # 200 THEN GoogleFailed("invalid_token", reply, 0)
    ELSE IF "sub" \notin DOMAIN reply THEN GoogleFailed("key_error", reply, 0)
    ELSE IF "google_id" \notin mapped THEN GoogleFailed("attribute_error", reply, 0)
    ELSE IF first_by("google_id", reply.sub) # 0
         THEN GoogleSucceeded("found", reply, 0, users, first_by("google_id", reply.sub))
    ELSE IF first_by("email", reply.email) # 0
         THEN google_link(reply, first_by("email", reply.email))
    ELSE google_create(reply, n)

SuffixDraws == {n \in randint(1000, 9999) : n < 1000 + MaxSuffixDraws}

\* random.randint is reached (line 375) only when the derived name is taken.
DrawsFor(reply) ==
    IF WellFormed(reply) /\ get_user(SplitFirst(reply.email, "@")) # 0
    THEN SuffixDraws
    ELSE {1000}

GoogleAuth ==
    \E reply \in ProviderReplies : \E n \in DrawsFor(reply) :
        /\ google_auth(reply, n)
        /\ UNCHANGED <<mapped, sess, now, issued, storage, accepted, cache, stored>>

(***************************************************************************)
(* The clock.  It moves forward to any later instant of interest: a few    *)
(* ticks after the epoch of the run, after the default token lifetime and  *)
(* after the login token lifetime.                                         *)
(***************************************************************************)
Instants ==
    {base + o : base \in {0, minutes(15), minutes(ACCESS_TOKEN_EXPIRE_MINUTES)},
                o \in 0..MaxOffset}

Advance(times) ==
    /\ \E t \in times : t > now /\ now' = t
    /\ UNCHANGED <<users, mapped, sess, resp, issued, storage, accepted, cache, stored>>

(***************************************************************************)
(* POST /token and the protected GET /users/me.                            *)
(***************************************************************************)
\* app.py 122-128: the index of the row, 0 for False.
authenticate_user(username, password) ==
    IF get_user(username) = 0 THEN 0
    ELSE IF ~verify_password(password, users[get_user(username)].hashed_password) THEN 0
         ELSE get_user(username)

\* app.py 206-222.
login_for_access_token(username, password) ==
    LET user == authenticate_user(username, password)
        token == create_access_token(users[user].username,
                                     minutes(ACCESS_TOKEN_EXPIRE_MINUTES), now)
    IN  IF user = 0
        THEN /\ resp' = [op |-> "token", status |-> 401, access_token |-> <<>>]
             /\ issued' = issued
        ELSE /\ resp' = [op |-> "token", status |-> 200, access_token |-> <<token>>]
             /\ issued' = issued \cup {[token |-> token, t0 |-> now, by |-> "login"]}

Login ==
    \E username \in Usernames, password \in Passwords \cup {"wrong"} :
        /\ Cardinality(issued) < MaxTokens
        /\ login_for_access_token(username, password)
        /\ UNCHANGED <<users, mapped, sess, now, storage, accepted, cache, stored>>

\* create_access_token called with a subject and no expires_delta.
IssueDefault ==
    \E sub \in Usernames :
        /\ Cardinality(issued) < MaxTokens
        /\ issued' = issued \cup {[token |-> create_access_token(sub, 0, now),
                                   t0 |-> now, by |-> "default"]}
        /\ UNCHANGED <<users, mapped, sess, resp, now, storage, accepted, cache, stored>>

\* The disabled column is set from outside the application (no handler writes it).
Deactivate ==
    \E i \in 1..Len(users) :
        /\ ~users[i].disabled
        /\ users' = [users EXCEPT ![i].disabled = TRUE]
        /\ UNCHANGED <<mapped, sess, resp, now, issued, storage, accepted, cache, stored>>

\* Tokens a client may present: those handed out, one signed with another key,
\* one without "sub".
Presentable ==
    {i.token : i \in issued}
    \cup {jwt_encode([sub |-> <<"a">>, exp |-> NumericDate(now) + 1], "other-key"),
          jwt_encode([exp |-> NumericDate(now) + 1], SECRET_KEY)}

\* The response of a protected endpoint, with the instant of the check and the
\* subject's row as it was then.
ProtectedResp(op, token, user) ==
    [op |-> op, status |-> IF user = 0 THEN 401 ELSE 200, token |-> token,
     at |-> now, user |-> user,
     subject |-> IF "sub" \in DOMAIN token.payload /\ get_user(token.payload.sub) # 0
                 THEN <<users[get_user(token.payload.sub)]>> ELSE <<>>]

\* app.py 224-226: Depends(get_current_user), then the row is returned.
read_users_me(token) ==
    resp' = ProtectedResp("users_me", token, get_current_user(token, now))

ReadUsersMe ==
    \E token \in Presentable :
        /\ read_users_me(token)
        /\ UNCHANGED <<users, mapped, sess, now, issued, storage, accepted, cache, stored>>

(***************************************************************************)
(* The rate limiter: slowapi's Limiter(key_func=get_remote_address) with   *)
(* its defaults, the fixed-window strategy over in-memory storage.  A key  *)
(* is the client address with the decorated function's name.               *)
(***************************************************************************)
seconds(n) == n * TicksPerSecond

\* "5/minute" and "3/minute": the amount per endpoint, the window for all.
limit(endpoint) == IF endpoint = "upload_file" THEN 3 ELSE 5
window == seconds(60)

\* MemoryStorage.get: the counter, dropped once its expiry has come.
storage_get(key, t) ==
    IF key \in DOMAIN storage /\ storage[key].expires > t THEN storage[key].count ELSE 0

\* MemoryStorage.incr: count the request; the first of a window sets its expiry.
storage_incr(key, t) ==
    LET count == storage_get(key, t) + 1
        expires == IF count = 1 THEN t + window ELSE storage[key].expires
    IN  [k \in DOMAIN storage \cup {key} |->
            IF k = key THEN [count |-> count, expires |-> expires] ELSE storage[k]]

\* hit as it would be if the request that reaches the amount were refused: the
\* variant C7 has to tell from hit.
hit_below_amount(key, amount, t) == storage_incr(key, t)[key].count < amount

\* FixedWindowRateLimiter.hit: whether the request counted is within the amount.
hit(key, amount, t) == storage_incr(key, t)[key].count <= amount

\* The times of the requests let through for the key in the last window length.
Recent(key, t) ==
    IF key \in DOMAIN accepted
    THEN SelectSeq(accepted[key], LAMBDA x : x > t - window)
    ELSE <<>>

\* The limiter's check in front of a handler: storage is written either way.
check_request_limit(key, amount, t) ==
    /\ storage' = storage_incr(key, t)
    /\ accepted' = [k \in DOMAIN accepted \cup {key} |->
                      IF k # key THEN accepted[k]
                      ELSE IF hit(key, amount, t) THEN Append(Recent(key, t), t)
                                                  ELSE Recent(key, t)]

(***************************************************************************)
(* The response cache: cachetools.TTLCache(maxsize=100, ttl=300).  The     *)
(* sequence is the order of its links, least recently used first.          *)
(***************************************************************************)
maxsize == 100
ttl == seconds(300)

Position(c, key) == IF \E i \in 1..Len(c) : c[i].key = key
                    THEN CHOOSE i \in 1..Len(c) : c[i].key = key
                    ELSE 0

Without(c, key) == SelectSeq(c, LAMBDA e : e.key # key)

\* __contains__ as it would be if an entry were still served at the instant of
\* its expiry: the variant C8 has to tell from cache_contains.
cache_contains_at_expiry(c, key, t) ==
    Position(c, key) # 0 /\ t <= c[Position(c, key)].expires

\* TTLCache.__contains__: a link that has not expired; nothing moves.
cache_contains(c, key, t) ==
    Position(c, key) # 0 /\ t < c[Position(c, key)].expires

\* TTLCache.__getitem__: False stands for the KeyError of a missing or expired
\* key.
cache_has_item(c, key, t) == cache_contains(c, key, t)

\* TTLCache.__getitem__ on a live key: the value, and the link moves to the end.
cache_value(c, key) == c[Position(c, key)].value
cache_touched(c, key) ==
    IF Position(c, key) = 0 THEN c ELSE Append(Without(c, key), c[Position(c, key)])

\* TTLCache.expire: drop every entry whose time has come.
cache_expire(c, t) == SelectSeq(c, LAMBDA e : t < e.expires)

\* The key TTLCache.__setitem__ evicts to make room, <<>> if none: a new key
\* into a full cache pops the least recently used entry.
evicted_by(c, key, t) ==
    LET live == cache_expire(c, t)
    IN  IF Position(live, key) = 0 /\ Len(live) >= maxsize THEN <<live[1].key>> ELSE <<>>

\* TTLCache.__setitem__ at instant t.
cache_setitem(c, key, value, t) ==
    LET live == cache_expire(c, t)
        room == IF Position(live, key) # 0 THEN Without(live, key)
                ELSE IF Len(live) >= maxsize THEN Tail(live)
                ELSE live
    IN  Append(room, [key |-> key, value |-> value, expires |-> t + ttl])

\* The record kept per cache key: the instant and value of the last write, whether
\* the entry was evicted to make room since, and the instant of the last request
\* for the key that was answered 200.  This is the write that goes with
\* cache_setitem.
Booked(key, value, t) ==
    LET out == evicted_by(cache, key, t)
    IN  [k \in DOMAIN stored \cup {key} |->
            IF k = key THEN [at |-> t, value |-> value, evicted |-> FALSE, last_ok |-> t]
            ELSE IF out # <<>> /\ out[1] = k THEN [stored[k] EXCEPT !.evicted = TRUE]
            ELSE stored[k]]

(***************************************************************************)
(* POST /tutor, GET /tutor and POST /upload.  FastAPI resolves             *)
(* Depends(get_current_user) before it calls the decorated function, so    *)
(* the token is checked first and the limiter second.                      *)
(***************************************************************************)
tutor_ == <<"t", "u", "t", "o", "r", "_">>

\* app.py 235: f"tutor_{query.topic}_{current_user.username}".
cache_key(topic, username) == tutor_ \o topic \o <<"_">> \o username

\* The response of a tutor or upload request with what the handler did: at and
\* read_at are the instants of the membership test and of the read of the
\* entry, called says whether model.generate_content ran, requester is the
\* username of current_user, prior is the record kept for the cache key when the
\* request came.
WorkResp(endpoint, status, stage, key, read_at, called, result, requester) ==
    [op |-> "work", endpoint |-> endpoint, status |-> status, stage |-> stage,
     key |-> key, at |-> now, read_at |-> read_at, called |-> called,
     result |-> result, requester |-> requester,
     prior |-> IF key \in DOMAIN stored THEN <<stored[key]>> ELSE <<>>]

Unauthorized(endpoint) ==
    /\ resp' = WorkResp(endpoint, 401, "auth", <<>>, now, FALSE, <<>>, <<>>)
    /\ UNCHANGED <<storage, accepted, cache, stored, now>>

RateLimitExceeded(endpoint, addr) ==
    /\ resp' = WorkResp(endpoint, 429, "limiter", <<>>, now, FALSE, <<>>, <<>>)
    /\ check_request_limit(<<addr, endpoint>>, limit(endpoint), now)
    /\ UNCHANGED <<cache, stored, now>>

\* app.py 235-273.  outcome is what model.generate_content does: <<text>> or
\* <<>> for an exception; t2 is the clock when cache[cache_key] is read.
educational_tutor(endpoint, username, topic, outcome, t2) ==
    LET key == cache_key(topic, username)
        result == [response |-> outcome[1], user |-> username]
    IN  IF cache_contains(cache, key, now)
        THEN IF cache_has_item(cache, key, t2)
             THEN /\ resp' = WorkResp(endpoint, 200, "cached", key, t2, FALSE,
                                      <<cache_value(cache, key)>>, <<username>>)
                  /\ cache' = cache_touched(cache, key)
                  /\ stored' = [stored EXCEPT ![key].last_ok = t2]
             ELSE /\ resp' = WorkResp(endpoint, 500, "key_error", key, t2, FALSE, <<>>,
                                      <<username>>)
                  /\ UNCHANGED <<cache, stored>>
        ELSE IF outcome = <<>>
             THEN /\ resp' = WorkResp(endpoint, 500, "generate_failed", key, t2, TRUE,
                                      <<>>, <<username>>)
                  /\ UNCHANGED <<cache, stored>>
             ELSE /\ resp' = WorkResp(endpoint, 200, "generated", key, t2, TRUE,
                                      <<result>>, <<username>>)
                  /\ cache' = cache_setitem(cache, key, result, t2)
                  /\ stored' = Booked(key, result, t2)

\* The limiter lets the request through unless the key has had its amount; the
\* model stops a client MaxOver requests after that.
Admitted(endpoint, addr) ==
    storage_get(<<addr, endpoint>>, now) < limit(endpoint) + MaxOver

\* The clock when the handler reads the entry: now, or one tick later.
ReadTimes(times) == {now} \cup {t \in times : t = now + 1}

Texts == {"text1", "text2"}

\* A token of a signed-up user good for a day, and one signed with another key.
TokenOf(sub) == create_access_token(sub, minutes(ACCESS_TOKEN_EXPIRE_MINUTES), 0)
BadToken == jwt_encode([sub |-> <<"a">>, exp |-> minutes(ACCESS_TOKEN_EXPIRE_MINUTES)], "other-key")

Tutor(endpoint, addrs, tokens, topics, texts, times) ==
    \E addr \in addrs, token \in tokens :
        /\ Admitted(endpoint, addr)
        /\ LET user == get_current_user(token, now)
           IN  IF user = 0 THEN Unauthorized(endpoint)
               ELSE IF ~hit(<<addr, endpoint>>, limit(endpoint), now)
                    THEN RateLimitExceeded(endpoint, addr)
               ELSE \E topic \in topics, outcome \in {<<>>} \cup {<<x>> : x \in texts},
                       t2 \in ReadTimes(times) :
                        /\ check_request_limit(<<addr, endpoint>>, limit(endpoint), now)
                        /\ educational_tutor(endpoint, users[user].username, topic,
                                             outcome, t2)
                        /\ now' = t2
        /\ UNCHANGED <<users, mapped, sess, issued>>

\* app.py 228-234.
TutorPost(addrs, tokens, topics, texts, times) ==
    Tutor("educational_tutor", addrs, tokens, topics, texts, times)

\* app.py 275-283: its own limit, then the body of educational_tutor.
TutorGet(addrs, tokens, topics, texts, times) ==
    Tutor("educational_tutor_get", addrs, tokens, topics, texts, times)

\* app.py 285-304: no cache; the document goes to model.generate_content.
Upload(addrs, tokens, texts) ==
    \E addr \in addrs, token \in tokens, outcome \in {<<>>} \cup {<<x>> : x \in texts} :
        /\ Admitted("upload_file", addr)
        /\ LET user == get_current_user(token, now)
           IN  IF user = 0 THEN Unauthorized("upload_file")
               ELSE IF ~hit(<<addr, "upload_file">>, limit("upload_file"), now)
                    THEN RateLimitExceeded("upload_file", addr)
               ELSE /\ check_request_limit(<<addr, "upload_file">>, limit("upload_file"), now)
                    /\ resp' = WorkResp("upload_file", IF outcome = <<>> THEN 500 ELSE 200,
                                        "uploaded", <<>>, now, TRUE,
                                        IF outcome = <<>> THEN <<>>
                                        ELSE <<[response |-> outcome[1],
                                                user |-> users[user].username]>>,
                                        <<users[user].username>>)
                    /\ UNCHANGED <<cache, stored, now>>
        /\ UNCHANGED <<users, mapped, sess, issued>>

Init ==
    /\ users = <<>>
    /\ mapped = UserColumns
    /\ sess = [w \in Workers |-> Idle]
    /\ resp = [op |-> "none", status |-> 0]
    /\ now = 0
    /\ issued = {}
    /\ storage = <<>>
    /\ accepted = <<>>
    /\ cache = <<>>
    /\ stored = <<>>

Next ==
    \/ \E w \in Workers, req \in SignupRequests : SignupCheckUsername(w, req)
    \/ \E w \in Workers : SignupCheckEmail(w)
    \/ \E w \in Workers : SignupCommit(w)
    \/ GoogleAuth

Spec == Init /\ [][Next]_vars

\* The same program with models.User mapping the columns the migration adds.
InitMigrated ==
    /\ users = <<>>
    /\ mapped = UserColumns \cup MigrationColumns
    /\ sess = [w \in Workers |-> Idle]
    /\ resp = [op |-> "none", status |-> 0]
    /\ now = 0
    /\ issued = {}
    /\ storage = <<>>
    /\ accepted = <<>>
    /\ cache = <<>>
    /\ stored = <<>>

SpecMigrated == InitMigrated /\ [][Next]_vars

\* The token service on a table that holds one signed-up user.
InitToken ==
    /\ users = <<NewPasswordUser([username |-> <<"a">>, email |-> <<"a", "@", "x">>,
                                  password |-> "pw"])>>
    /\ mapped = UserColumns
    /\ sess = [w \in Workers |-> Idle]
    /\ resp = [op |-> "none", status |-> 0]
    /\ now = 0
    /\ issued = {}
    /\ storage = <<>>
    /\ accepted = <<>>
    /\ cache = <<>>
    /\ stored = <<>>

NextToken ==
    \/ Login
    \/ IssueDefault
    \/ Deactivate
    \/ ReadUsersMe
    \/ Advance(Instants)

SpecToken == InitToken /\ [][NextToken]_vars

\* One client address sending requests to one rate-limited endpoint.
OneUser ==
    <<NewPasswordUser([username |-> <<"a">>, email |-> <<"a", "@", "x">>,
                       password |-> "pw"])>>

InitLimiter ==
    /\ users = OneUser
    /\ mapped = UserColumns
    /\ sess = [w \in Workers |-> Idle]
    /\ resp = [op |-> "none", status |-> 0]
    /\ now = 0
    /\ issued = {}
    /\ storage = <<>>
    /\ accepted = <<>>
    /\ cache = <<>>
    /\ stored = <<>>

LimiterInstants == {0} \cup {window - 1 + o : o \in 0..MaxLimiterOffset}

Address == "10.0.0.1"
OnlyKey(endpoint) == DOMAIN storage \subseteq {<<Address, endpoint>>}

NextLimiter ==
    \/ /\ OnlyKey("educational_tutor")
       /\ TutorPost({Address}, {TokenOf(<<"a">>)}, {<<"x">>}, {"text1"}, {})
    \/ /\ OnlyKey("educational_tutor_get")
       /\ TutorGet({Address}, {TokenOf(<<"a">>)}, {<<"x">>}, {"text1"}, {})
    \/ /\ OnlyKey("upload_file")
       /\ Upload({Address}, {TokenOf(<<"a">>)}, {"text1"})
    \/ Advance(LimiterInstants)

SpecLimiter == InitLimiter /\ [][NextLimiter]_vars

\* The tutor endpoints for one user from one address.  The cache starts empty,
\* or full: the entry of topic "x" written first, then maxsize - 1 entries of
\* other topics, all at instant 0.
Filler(i) ==
    [key |-> cache_key(str(i), <<"a">>),
     value |-> [response |-> "text1", user |-> <<"a">>], expires |-> ttl]

FullCache ==
    <<[key |-> cache_key(<<"x">>, <<"a">>),
       value |-> [response |-> "text1", user |-> <<"a">>], expires |-> ttl]>>
    \o [i \in 1..(maxsize - 1) |-> Filler(i)]

InitTutor ==
    /\ users = OneUser
    /\ mapped = UserColumns
    /\ sess = [w \in Workers |-> Idle]
    /\ resp = [op |-> "none", status |-> 0]
    /\ now = 0
    /\ issued = {}
    /\ storage = <<>>
    /\ accepted = <<>>
    /\ \/ cache = <<>> /\ stored = <<>>
       \/ /\ cache = FullCache
          /\ stored = [k \in {FullCache[1].key} |->
                          [at |-> 0, value |-> FullCache[1].value, evicted |-> FALSE,
                           last_ok |-> 0]]

\* The instants of a tutor request: 0, and the ticks around the expiry of an entry
\* written at 0.
TutorInstants == {0} \cup {ttl - 1 + o : o \in 0..MaxTutorOffset}

Topics == {<<"x">>, <<"y">>}

NextTutor ==
    \/ TutorPost({Address}, {TokenOf(<<"a">>), BadToken}, Topics, Texts, TutorInstants)
    \/ Advance(TutorInstants)

SpecTutor == InitTutor /\ [][NextTutor]_vars

\* POST /tutor for two signed-up users whose names and topics hold the "_" the
\* cache key is joined with; the clock stands still, so nothing expires.
KeyUsernames == {<<"a">>, <<"b", "_", "a">>}

KeyTopics == {<<"x">>, <<"x", "_", "b">>}

TwoUsers ==
    <<NewPasswordUser([username |-> <<"a">>, email |-> <<"a", "@", "x">>,
                       password |-> "pw"]),
      NewPasswordUser([username |-> <<"b", "_", "a">>, email |-> <<"b", "@", "x">>,
                       password |-> "pw"])>>

InitKeys ==
    /\ users = TwoUsers
    /\ mapped = UserColumns
    /\ sess = [w \in Workers |-> Idle]
    /\ resp = [op |-> "none", status |-> 0]
    /\ now = 0
    /\ issued = {}
    /\ storage = <<>>
    /\ accepted = <<>>
    /\ cache = <<>>
    /\ stored = <<>>

NextKeys ==
    TutorPost({Address}, {TokenOf(u) : u \in KeyUsernames}, KeyTopics, Texts, {0})

SpecKeys == InitKeys /\ [][NextKeys]_vars

(***************************************************************************)
(* The claims.                                                             *)
(***************************************************************************)

\* C1: every POST /signup that finds its username or email held by a committed
\* row is answered 400 and adds no row; every other signup is answered 200 and
\* adds exactly one row, with a password hash and no Google id; no two rows
\* share a username.
C1_SignupDuplicateAnswered400 ==
    /\ \A i, j \in 1..Len(users) : users[i].username = users[j].username => i = j
    /\ resp.op = "signup" =>
          IF resp.held
          THEN resp.status = 400
          ELSE /\ resp.status = 200
               /\ users[Len(users)].hashed_password # None
               /\ users[Len(users)].google_id = None

\* C5: POST /auth/google answers 401 whenever the provider's reply is not a
\* success, answers 500 only for other failures, and returns no bearer token
\* with either.
C5_InvalidProviderTokenIs401 ==
    resp.op = "google" =>
        /\ resp.provider_status # 200 => resp.status = 401
        /\ resp.status = 500 => resp.provider_status = 200
        /\ resp.status \in {401, 500} => resp.access_token = <<>>

\* The Google login had to create a row and found the derived username taken.
CreateWithTakenName ==
    /\ resp.op = "google"
    /\ resp.provider_status = 200
    /\ resp.found.sub # None
    /\ resp.found.by_google_id = 0
    /\ resp.found.by_email = 0
    /\ resp.found.derived_taken

\* C6: a Google login that has to create a row while the derived username is
\* taken adds a row named <derived name><4 digits>, a name no other row holds;
\* it fails only after it has re-drawn a colliding suffix, every draw colliding.
C6_SuffixRedrawnUntilFree ==
    CreateWithTakenName =>
        \/ /\ resp.status = 200
           /\ Len(users) = resp.found.rows + 1
           /\ resp.user = Len(users)
           /\ LET name == users[resp.user].username
                  stem == SubSeq(name, 1, Len(name) - 4)
                  tail == SubSeq(name, Len(name) - 3, Len(name))
              IN  /\ Len(name) > 4
                  /\ IsDigits(tail)
                  /\ \E r \in Rows : r.username = stem
                  /\ \A i \in 1..Len(users) : users[i].username = name => i = resp.user
        \/ /\ resp.status # 200
           /\ resp.draws > 1

\* The Google login carried an id no row held and the email of a row that has a
\* password hash.
LinkCase ==
    /\ resp.op = "google"
    /\ resp.provider_status = 200
    /\ resp.found.sub # None
    /\ resp.found.by_google_id = 0
    /\ resp.found.by_email # 0
    /\ resp.found.before[1].hashed_password # None

\* C10: such a login is answered 200, leaves the number of rows as it was, sets
\* the row's google_id and picture and nothing else of it, and returns a token
\* whose subject is the row's username.
C10_LinkSetsOnlyIdAndPicture ==
    LinkCase =>
        /\ resp.status = 200
        /\ Len(users) = resp.found.rows
        /\ resp.user = resp.found.by_email
        /\ users[resp.user] = [resp.found.before[1] EXCEPT
                                  !.google_id = resp.found.sub,
                                  !.picture = resp.found.picture]
        /\ resp.access_token # <<>>
        /\ resp.access_token[1].payload.sub = resp.found.before[1].username

ValidTokenPresented ==
    /\ resp.op = "users_me"
    /\ resp.token.key = SECRET_KEY
    /\ "sub" \in DOMAIN resp.token.payload
    /\ resp.token.payload.exp * TicksPerSecond >= resp.at

\* C2: a protected request with a validly signed, unexpired token is rejected
\* when no row has the token's subject and when that row is disabled; it is
\* served only when the row exists and is not disabled.
C2_ServedOnlyKnownActiveSubject ==
    ValidTokenPresented =>
        /\ resp.subject = <<>> => resp.status # 200
        /\ resp.subject # <<>> /\ resp.subject[1].disabled => resp.status # 200
        /\ resp.status = 200 => resp.subject # <<>> /\ ~resp.subject[1].disabled

\* The lifetime asked for by whoever issued the token, in ticks.
Lifetime(i) == IF i.by = "login" THEN 24 * 60 * 60 * TicksPerSecond
                                 ELSE 15 * 60 * TicksPerSecond

\* A protected endpoint answered a request carrying the issued token i of a
\* subject that has a row.
Presented(i) ==
    /\ resp.op = "users_me"
    /\ resp.token = i.token
    /\ resp.subject # <<>>

\* C3 as stated: a token issued at t0 with lifetime ttl is accepted at every
\* instant t0 <= t <= t0 + ttl and rejected at every instant t > t0 + ttl.
C3_AcceptedExactlyUntilExpiry ==
    \A i \in issued :
        Presented(i) => (resp.status = 200 <=> resp.at <= i.t0 + Lifetime(i))

\* C3, amended: the token is accepted up to the end of the whole second in which
\* t0 + ttl falls and rejected from the next whole second on; ttl is 24 hours
\* for POST /token and 15 minutes when no ttl is given.
C3_AcceptedUntilExpirySecond ==
    \A i \in issued :
        Presented(i) =>
            (resp.status = 200 <=>
                resp.at \div TicksPerSecond <= (i.t0 + Lifetime(i)) \div TicksPerSecond)

\* An issued token was presented after t0 + ttl and rejected.
C3_WitnessRejectedAfterExpiry ==
    \E i \in issued :
        Presented(i) /\ resp.status = 401 /\ resp.at > i.t0 + Lifetime(i)

InWindow(key) ==
    SelectSeq(accepted[key], LAMBDA x : x >= storage[key].expires - window)

Smaller(a, b) == IF a <= b THEN a ELSE b

TutorServed ==
    /\ resp.op = "work"
    /\ resp.endpoint \in {"educational_tutor", "educational_tutor_get"}
    /\ resp.stage \notin {"auth", "limiter"}

\* The cache and the record of the key are as the request found them.
NothingStored ==
    /\ resp.prior = <<>> => resp.key \notin DOMAIN stored
    /\ resp.prior # <<>> => stored[resp.key] = resp.prior[1]
    /\ ~cache_contains(cache, resp.key, resp.at)

\* C8 as stated: a tutor request made less than ttl after a request for the same
\* user and topic that was answered 200 returns the stored result without an
\* external call; one made ttl or more after the entry was stored makes an
\* external call; a failed external call stores nothing.
C8_HitWithinTtlOfLastSuccess ==
    TutorServed =>
        /\ resp.prior # <<>> /\ resp.at - resp.prior[1].last_ok < ttl =>
              /\ resp.status = 200
              /\ ~resp.called
              /\ resp.result = <<resp.prior[1].value>>
        /\ resp.prior # <<>> /\ resp.at - resp.prior[1].at >= ttl => resp.called
        /\ resp.stage = "generate_failed" => NothingStored

\* The entry written for the request's key is still in the cache at instant t:
\* written less than ttl before t and not evicted to make room since.
Live(t) ==
    /\ resp.prior # <<>>
    /\ ~resp.prior[1].evicted
    /\ t - resp.prior[1].at < ttl

\* C8, amended: a tutor request that reads the cache less than ttl after the
\* entry of its key was written, the entry not evicted for capacity since,
\* returns the stored result without an external call; one that arrives when the
\* entry is ttl old, evicted or was never written makes an external call; one
\* that arrives before and reads after the entry's expiry is answered 500 without
\* a call; a failed external call stores nothing.
C8_HitWhileEntryLives ==
    TutorServed =>
        /\ Live(resp.read_at) =>
              /\ resp.status = 200
              /\ ~resp.called
              /\ resp.result = <<resp.prior[1].value>>
        /\ ~Live(resp.at) => resp.called
        /\ Live(resp.at) /\ ~Live(resp.read_at) => resp.status = 500 /\ ~resp.called
        /\ resp.stage = "generate_failed" => NothingStored

\* A request was answered from the cache after an earlier one had written the
\* entry at a later instant than 0.
C8_WitnessServedFromCache ==
    /\ TutorServed
    /\ Live(resp.read_at)
    /\ resp.prior[1].at > 0
    /\ ~resp.called
    /\ resp.read_at > resp.prior[1].at

\* C9: a tutor request that got past the token check and the limiter is answered
\* from the cache or with the outcome of the external call; it never fails
\* because of the cache.
C9_CacheNeverFailsRequest ==
    TutorServed => resp.stage = "cached" \/ resp.called

C12_ResultOnlyForItsRequester ==
    TutorServed /\ resp.status = 200 =>
        /\ resp.result[1].user = resp.requester[1]
        /\ resp.stage = "cached" => resp.prior[1].value.user = resp.requester[1]

====
